---- MODULE Spec2Model ----
(***************************************************************************)
(* Model of the static vulnerability-pattern engine of DappAuditor         *)
(* (src/utils/enhanced-rag-engine.ts, class EnhancedSmartContractRAG) and  *)
(* of the life cycle of its pattern catalog.                               *)
(*                                                                         *)
(* Source texts are sequences of runs <<snippet, repetitions>>: each run   *)
(* stands for that many lines holding the snippet.  What a regular         *)
(* expression does on a snippet is tabulated in Hits from the regular      *)
(* expressions of the source; on these snippets the counts of              *)
(* String.prototype.match with a /g expression add up line by line.        *)
(* Prevalence and confidence are exact decimals: prevalence and            *)
(* totalConfidence in hundredths, the returned confidence in tenths.       *)
(*                                                                         *)
(* A further part models the detectors of src/utils/datasetProcessor.ts    *)
(* (class DatasetProcessor); there a text is a sequence of lines and what  *)
(* a line includes is tabulated in TokensOf.  The last part models the     *)
(* audit page (src/app/audit/page.tsx): its state variables are the fields *)
(* of `page`, and stars are held in tenths of a star.                      *)
(***************************************************************************)
EXTENDS Integers, Sequences, FiniteSets, TLC

\* ------------------------------------------------------------------ bounds
MaxRuns == 2
BigRep == 50
MaxInFlight == 2
MaxLines == 3

\* --------------------------------------------------------------- catalogs
Severities == {"critical", "high", "medium", "low"}

\* prevalence?: number -- the value of an absent optional field
Undefined == -1

\* A catalog entry holds id, severity and prevalence; its expression is named
\* by its id, and description and recommendation are read from the tables
\* below, the same text for an id in every source.
BasePattern(id, sev) ==
    [id |-> id, severity |-> sev, prevalence |-> Undefined]

EnhPattern(id, sev, prev) ==
    [id |-> id, severity |-> sev, prevalence |-> prev]

BASE_VULNERABILITY_PATTERNS ==
    << BasePattern("reentrancy", "critical"),
       BasePattern("unchecked_return", "high"),
       BasePattern("integer_overflow", "high"),
       BasePattern("tx_origin", "medium"),
       BasePattern("unprotected_selfdestruct", "critical"),
       BasePattern("delegatecall_to_untrusted", "critical"),
       BasePattern("timestamp_dependence", "medium"),
       BasePattern("missing_input_validation", "medium") >>

\* The shipped src/data/knowledge-base-config.ts (prevalence 0.2 each).
ENHANCED_VULNERABILITY_PATTERNS ==
    << EnhPattern("enhanced_reentrancy", "critical", 20),
       EnhPattern("enhanced_timestamp", "medium", 20),
       EnhPattern("enhanced_access_control", "high", 20),
       EnhPattern("enhanced_overflow", "high", 20),
       EnhPattern("enhanced_unchecked_call", "high", 20) >>

\* Another knowledge-base-config.ts that the interface EnhancedVulnerabilityPattern
\* admits: the generator's expressions with other severities and prevalences
\* (1.0, 0 and 0.5).
OTHER_ENHANCED_PATTERNS ==
    << EnhPattern("enhanced_timestamp", "medium", 100),
       EnhPattern("enhanced_reentrancy", "critical", 0),
       EnhPattern("enhanced_access_control", "low", 50) >>

\* vuln.pattern: the expressions are named after the ids
PatternOf(vuln) == vuln.id

\* vuln.description
DescriptionOf(vuln) ==
    CASE vuln.id = "reentrancy" ->
            "External calls that can be exploited for reentrancy attacks"
      [] vuln.id = "unchecked_return" -> "External calls without checking return values"
      [] vuln.id = "integer_overflow" -> "Arithmetic operations without overflow protection"
      [] vuln.id = "tx_origin" ->
            "Using tx.origin for authorization is vulnerable to phishing attacks"
      [] vuln.id = "unprotected_selfdestruct" -> "selfdestruct without proper access control"
      [] vuln.id = "delegatecall_to_untrusted" -> "Using delegatecall with untrusted contracts"
      [] vuln.id = "timestamp_dependence" -> "Relying on block.timestamp for critical logic"
      [] vuln.id = "missing_input_validation" ->
            "Functions accepting addresses without zero-address checks"
      [] vuln.id = "enhanced_reentrancy" -> "External calls vulnerable to reentrancy attacks"
      [] vuln.id = "enhanced_timestamp" -> "Logic dependent on block timestamp manipulation"
      [] vuln.id = "enhanced_access_control" -> "Functions lacking proper access control"
      [] vuln.id = "enhanced_overflow" -> "Arithmetic operations without overflow protection"
      [] vuln.id = "enhanced_unchecked_call" ->
            "External calls without return value verification"

\* vuln.recommendation
RecommendationOf(vuln) ==
    CASE vuln.id = "reentrancy" ->
            "Use checks-effects-interactions pattern and reentrancy guards"
      [] vuln.id = "unchecked_return" -> "Always check return values of external calls"
      [] vuln.id = "integer_overflow" ->
            "Use SafeMath library or Solidity 0.8+ built-in overflow checks"
      [] vuln.id = "tx_origin" -> "Use msg.sender instead of tx.origin for access control"
      [] vuln.id = "unprotected_selfdestruct" ->
            "Add proper access control modifiers to selfdestruct functions"
      [] vuln.id = "delegatecall_to_untrusted" ->
            "Avoid delegatecall to user-controlled addresses"
      [] vuln.id = "timestamp_dependence" ->
            "Avoid using block.timestamp for critical decisions"
      [] vuln.id = "missing_input_validation" ->
            "Add input validation for address parameters"
      [] vuln.id = "enhanced_reentrancy" ->
            "Use ReentrancyGuard, checks-effects-interactions pattern, or pull payment"
      [] vuln.id = "enhanced_timestamp" ->
            "Use block numbers or external oracles for time-dependent logic"
      [] vuln.id = "enhanced_access_control" ->
            "Implement proper access control modifiers and checks"
      [] vuln.id = "enhanced_overflow" ->
            "Use SafeMath library or Solidity 0.8+ built-in checks"
      [] vuln.id = "enhanced_unchecked_call" ->
            "Always check return values of external calls"

\* vuln.id.includes('enhanced_') over the ids of the model
IdIncludesEnhanced(id) ==
    id \in {"enhanced_reentrancy", "enhanced_timestamp", "enhanced_access_control",
            "enhanced_overflow", "enhanced_unchecked_call"}

GAS_OPTIMIZATION_PATTERNS ==
    << [pattern |-> "gas_length", optimization |-> "Cache array length before loop"],
       [pattern |-> "gas_storage", optimization |-> "Cache storage variables in memory"],
       [pattern |-> "gas_string", optimization |-> "Use bytes32 for short strings"] >>

\* ------------------------------------------------------------ source texts
\* snippet                   one line of source text
\*  "plain"       pragma solidity ^0.8.0;
\*  "selfdestruct" selfdestruct(payable(owner));
\*  "txorigin"    require(tx.origin == owner);
\*  "callvalue"   msg.sender.call{value: amount}("");
\*  "call"        target.call(data);
\*  "delegate"    impl.delegatecall(data);
\*  "timestamp"   if (block.timestamp > deadline) { open = false; }
\*  "func"        function setOwner(address newOwner) public { owner = newOwner; }
\*  "forlen"      for (uint i = 0; i < arr.length; i++) { total += arr[i]; }
\*  "string"      string memory s = "a";
\*  "storage"     Data storage d = items[i];
\*  "send"        payable(to).send(amount);
\*  "arith"       uint256 total * quantity
\*  "arithnote"   uint256 total * quantity // unchecked
Snippets == {"plain", "selfdestruct", "txorigin", "callvalue", "call", "delegate",
             "timestamp", "func", "forlen", "string", "storage"}

\* The number of matches of the expression rx on one line holding snippet s.
Hits(s, rx) ==
    CASE s = "selfdestruct" -> IF rx = "unprotected_selfdestruct" THEN 1 ELSE 0
      [] s = "txorigin"     -> IF rx = "tx_origin" THEN 1 ELSE 0
      [] s = "callvalue"    -> IF rx \in {"reentrancy", "enhanced_reentrancy"} THEN 1 ELSE 0
      [] s = "call"         -> IF rx \in {"reentrancy", "unchecked_return",
                                          "enhanced_unchecked_call"} THEN 1 ELSE 0
      [] s = "delegate"     -> IF rx = "delegatecall_to_untrusted" THEN 1 ELSE 0
      [] s = "timestamp"    -> IF rx \in {"timestamp_dependence", "enhanced_timestamp"}
                               THEN 1 ELSE 0
      [] s = "func"         -> IF rx \in {"missing_input_validation",
                                          "enhanced_access_control"} THEN 1 ELSE 0
      [] s = "forlen"       -> IF rx = "gas_length" THEN 1 ELSE 0
      [] s = "string"       -> IF rx = "gas_string" THEN 1 ELSE 0
      [] s = "storage"      -> IF rx = "gas_storage" THEN 1 ELSE 0
      [] s = "send"         -> IF rx = "unchecked_return" THEN 1 ELSE 0
      [] s = "arith"        -> IF rx \in {"integer_overflow", "enhanced_overflow"}
                               THEN 1 ELSE 0
      [] s = "arithnote"    -> IF rx = "integer_overflow" THEN 1 ELSE 0
      [] s = "transfer"     -> IF rx = "unchecked_return" THEN 1 ELSE 0
      [] s = "resetcall"    -> IF rx \in {"reentrancy", "enhanced_reentrancy"} THEN 1 ELSE 0
      [] OTHER              -> 0

\* The lines "transfer" and "resetcall" are those of the DatasetProcessor
\* part below; its other lines match no expression.
\* Further lines, for the whole contracts below.
MoreSnippets == {"send", "arith", "arithnote"}

Reps == {1, BigRep}
Runs == Snippets \X Reps

RECURSIVE TextsUpTo(_)
TextsUpTo(n) ==
    IF n = 0 THEN {<< >>}
    ELSE LET shorter == TextsUpTo(n - 1)
         IN  shorter \cup {Append(t, r) : t \in {u \in shorter : Len(u) = n - 1}, r \in Runs}

Texts == TextsUpTo(MaxRuns)

\* contractCode.match(pattern): the number of matches, 0 standing for null
RECURSIVE MatchCount(_, _)
MatchCount(contractCode, rx) ==
    IF contractCode = << >> THEN 0
    ELSE Hits(Head(contractCode)[1], rx) * Head(contractCode)[2]
         + MatchCount(Tail(contractCode), rx)

\* ------------------------------------------------------------------ state
VARIABLES
    vulnerabilities,        \* this.knowledgeBase.vulnerabilities (the catalog)
    datasetStatistics,      \* this.datasetStatistics
    datasetPatternsLoaded,  \* this.datasetPatternsLoaded
    tasks,                  \* the pending loadEnhancedPatterns / reloadEnhancedPatterns calls
    text,                   \* the argument of the analysis call just made
    prev,                   \* the result of the call before, when the caller keeps it
    ret,                    \* what the call or promise that just completed returned
    lastLoad,               \* how the load attempt that settled last ended
    vulnerabilityPatterns,  \* this.vulnerabilityPatterns of the DatasetProcessor
    page                    \* the state of the AuditPage component

vars == <<vulnerabilities, datasetStatistics, datasetPatternsLoaded, tasks,
          text, prev, ret, lastLoad, vulnerabilityPatterns, page>>

NoRet == [op |-> "none"]

\* null, for the state variables of the page that start as null
Null == [null |-> TRUE]

\* The values the page's useState calls start from (lines 110-125); `run`
\* is the place the pending call of analyzeContract has reached and `effect`
\* the place the effect that loads the dataset has reached.
InitialPage ==
    [code |-> << >>, isAnalyzing |-> FALSE, result |-> Null, showResult |-> FALSE,
     cooldown |-> 0, error |-> "null", isReviewBlurred |-> TRUE,
     datasetLoaded |-> FALSE, run |-> "idle", effect |-> "mount"]

\* ------------------------------------------------------------------ scoring
getSeverityWeight(severity) ==
    CASE severity = "critical" -> 4
      [] severity = "high"     -> 3
      [] severity = "medium"   -> 2
      [] severity = "low"      -> 1
      [] OTHER                 -> 0

\* if (vuln.id.includes('enhanced_') && vuln.prevalence): 0 and undefined are falsy
IsDatasetPattern(vuln) ==
    IdIncludesEnhanced(vuln.id) /\ vuln.prevalence # Undefined /\ vuln.prevalence # 0

EmptyFindings == [s \in Severities |-> << >>]

ScanStart ==
    [vulnerabilities |-> EmptyFindings, totalIssues |-> 0,
     datasetMatches |-> 0, totalConfidence |-> 0]

\* The body of the forEach callback for a pattern with matches.length = matches > 0.
\* Variant: one description pushed per match.
RecordMatchesPerMatch(acc, vuln, matches) ==
    [vulnerabilities |->
        [acc.vulnerabilities EXCEPT
            ![vuln.severity] = @ \o [i \in 1..matches |-> DescriptionOf(vuln)]],
     totalIssues |-> acc.totalIssues + matches * getSeverityWeight(vuln.severity),
     datasetMatches |-> acc.datasetMatches + (IF IsDatasetPattern(vuln) THEN 1 ELSE 0),
     totalConfidence |-> acc.totalConfidence
                          + (IF IsDatasetPattern(vuln) THEN vuln.prevalence ELSE 50)]

\* Variant: the weight added once per pattern, matches.length dropped.
RecordMatchesOncePerPattern(acc, vuln, matches) ==
    [vulnerabilities |->
        [acc.vulnerabilities EXCEPT ![vuln.severity] = Append(@, DescriptionOf(vuln))],
     totalIssues |-> acc.totalIssues + getSeverityWeight(vuln.severity),
     datasetMatches |-> acc.datasetMatches + (IF IsDatasetPattern(vuln) THEN 1 ELSE 0),
     totalConfidence |-> acc.totalConfidence
                          + (IF IsDatasetPattern(vuln) THEN vuln.prevalence ELSE 50)]

RecordMatches(acc, vuln, matches) ==
    [vulnerabilities |->
        [acc.vulnerabilities EXCEPT ![vuln.severity] = Append(@, DescriptionOf(vuln))],
     totalIssues |-> acc.totalIssues + matches * getSeverityWeight(vuln.severity),
     datasetMatches |-> acc.datasetMatches + (IF IsDatasetPattern(vuln) THEN 1 ELSE 0),
     totalConfidence |-> acc.totalConfidence
                          + (IF IsDatasetPattern(vuln) THEN vuln.prevalence ELSE 50)]

\* Variant: `if (matches)` dropped, a pattern without match recorded too.
RECURSIVE ScanVulnerabilitiesUnguarded(_, _, _)
ScanVulnerabilitiesUnguarded(kb, contractCode, acc) ==
    IF kb = << >> THEN acc
    ELSE ScanVulnerabilitiesUnguarded(Tail(kb), contractCode,
             RecordMatches(acc, Head(kb), MatchCount(contractCode, PatternOf(Head(kb)))))

\* this.knowledgeBase.vulnerabilities.forEach(vuln => ...)
RECURSIVE ScanVulnerabilities(_, _, _)
ScanVulnerabilities(kb, contractCode, acc) ==
    IF kb = << >> THEN acc
    ELSE LET vuln == Head(kb)
             matches == MatchCount(contractCode, PatternOf(vuln))
         IN  ScanVulnerabilities(Tail(kb), contractCode,
                 IF matches > 0 THEN RecordMatches(acc, vuln, matches) ELSE acc)

\* GAS_OPTIMIZATION_PATTERNS.forEach(pattern => ...)
RECURSIVE ScanGas(_, _)
ScanGas(patterns, contractCode) ==
    IF patterns = << >> THEN << >>
    ELSE (IF MatchCount(contractCode, Head(patterns).pattern) > 0
          THEN << Head(patterns).optimization >> ELSE << >>)
         \o ScanGas(Tail(patterns), contractCode)

\* Variant: Math.max(0, ...) dropped.
SecurityScoreUnclamped(totalIssues) ==
    5 - (totalIssues \div 2)

\* Variant: Math.abs in place of Math.max(0, ...).
SecurityScoreAbs(totalIssues) ==
    IF 5 - (totalIssues \div 2) < 0 THEN (totalIssues \div 2) - 5
    ELSE 5 - (totalIssues \div 2)

\* Variant: one star for every three points of weight.
SecurityScoreByThree(totalIssues) ==
    IF 5 - (totalIssues \div 3) < 0 THEN 0 ELSE 5 - (totalIssues \div 3)

\* Math.max(0, 5 - Math.floor(totalIssues / 2))
SecurityScore(totalIssues) ==
    IF 5 - (totalIssues \div 2) < 0 THEN 0 ELSE 5 - (totalIssues \div 2)

\* Math.min(q, 5) on a fraction num / den
MinFive(q) ==
    IF q.num > 5 * q.den THEN [num |-> 5, den |-> 1] ELSE q

\* Variant: the denominator counts weighted raw matches, not bucket entries.
ConfidenceByRawMatches(acc) ==
    IF acc.datasetMatches > 0
    THEN MinFive([num |-> 5 * acc.totalConfidence,
                  den |-> 100 * (acc.datasetMatches + acc.totalIssues)])
    ELSE MinFive([num |-> acc.totalConfidence, den |-> 100])

\* Variant: the divisor counts the critical and high findings only.
ConfidenceDivisorSevereOnly(acc) ==
    Len(acc.vulnerabilities["critical"]) + Len(acc.vulnerabilities["high"])

\* datasetMatches + vulnerabilities.critical.length + vulnerabilities.high.length
ConfidenceDivisor(acc) ==
    acc.datasetMatches + Len(acc.vulnerabilities["critical"])
                       + Len(acc.vulnerabilities["high"])

\* What totalConfidence is divided by on line 238, Undefined on the branch
\* of line 239, which does not divide.
DividedBy(acc) ==
    IF acc.datasetMatches > 0 THEN ConfidenceDivisor(acc) ELSE Undefined

\* The confidence before rounding, as a fraction (totalConfidence is in hundredths).
Confidence(acc) ==
    IF acc.datasetMatches > 0
    THEN MinFive([num |-> 5 * acc.totalConfidence,
                  den |-> 100 * ConfidenceDivisor(acc)])
    ELSE MinFive([num |-> acc.totalConfidence, den |-> 100])

\* Math.round(confidence * 10) / 10, in tenths: Math.round(x) = floor(x + 1/2)
RoundToTenths(q) ==
    (20 * q.num + q.den) \div (2 * q.den)

RECURSIVE SumSeq(_)
SumSeq(seq) == IF seq = << >> THEN 0 ELSE Head(seq) + SumSeq(Tail(seq))

\* Object.entries(analysis.vulnerabilities): the keys in the order of the literal
SeverityOrder == << "critical", "high", "medium", "low" >>

\* severity.toUpperCase()
ToUpperCase(severity) ==
    CASE severity = "critical" -> "CRITICAL"
      [] severity = "high"     -> "HIGH"
      [] severity = "medium"   -> "MEDIUM"
      [] severity = "low"      -> "LOW"

\* confidence.toFixed(1) of the unrounded confidence, a fraction: one
\* decimal, rounded to the nearest (exact decimals, not IEEE doubles)
ToFixedOne(q) ==
    LET tenths == RoundToTenths(q)
    IN  ToString(tenths \div 10) \o "." \o ToString(tenths % 10)

\* The lines `- ${severity.toUpperCase()}: ${issues.length} issues\n` of the
\* buckets that are not empty, from the bucket with index k on
RECURSIVE IssueLines(_, _)
IssueLines(found, k) ==
    IF k > Len(SeverityOrder) THEN ""
    ELSE LET severity == SeverityOrder[k]
         IN  (IF Len(found[severity]) > 0
              THEN "- " \o ToUpperCase(severity) \o ": "
                        \o ToString(Len(found[severity])) \o " issues\n"
              ELSE "")
             \o IssueLines(found, k + 1)

\* this.knowledgeBase.bestPractices.slice(0, 3), numbered
BestPracticeLines ==
    "1. Follow checks-effects-interactions pattern\n"
    \o "2. Use reentrancy guards for external calls\n"
    \o "3. Validate all inputs, especially addresses\n"

\* generateEnhancedDetailedAnalysis(vulnerabilities, gasIssues, datasetMatches,
\* confidence) on a catalog of kbSize patterns with the flag `loaded`
generateEnhancedDetailedAnalysis(kbSize, loaded, found, gasIssues, datasetMatches, confidence) ==
    LET totalVulns == SumSeq([k \in 1..Len(SeverityOrder) |-> Len(found[SeverityOrder[k]])])
    IN  "Enhanced Smart Contract Security Analysis:\n\n"
        \o (IF loaded
            THEN "Analysis enhanced with " \o ToString(kbSize) \o " patterns from dataset\n"
                 \o "Dataset matches: " \o ToString(datasetMatches) \o " | Confidence: "
                 \o ToFixedOne(confidence) \o "/5\n\n"
            ELSE "Using base patterns. Run dataset processor for enhanced analysis.\n\n")
        \o (IF totalVulns = 0
            THEN "No obvious vulnerabilities detected in static analysis.\n\n"
            ELSE "Found " \o ToString(totalVulns) \o " potential security issues:\n"
                 \o IssueLines(found, 1) \o "\n")
        \o (IF Len(gasIssues) > 0
            THEN ToString(Len(gasIssues)) \o " gas optimization opportunities identified.\n\n"
            ELSE "")
        \o "Enhanced Recommendations:\n"
        \o (IF loaded /\ datasetMatches > 0
            THEN "Dataset-validated patterns detected - high confidence findings\n"
            ELSE "")
        \o BestPracticeLines

\* Variant: every gas suggestion counts as one issue in the score.
ResultOfGasInScore(acc, kb, loaded, contractCode) ==
    LET confidence == Confidence(acc)
        gasIssues == ScanGas(GAS_OPTIMIZATION_PATTERNS, contractCode)
    IN  [op |-> "analyze",
         vulnerabilities |-> acc.vulnerabilities,
         gasOptimizations |-> gasIssues,
         securityScore |-> SecurityScore(acc.totalIssues + Len(gasIssues)),
         detailedAnalysis |->
             generateEnhancedDetailedAnalysis(Len(kb), loaded, acc.vulnerabilities,
                                              gasIssues, acc.datasetMatches, confidence),
         confidence |-> RoundToTenths(confidence),
         datasetMatches |-> acc.datasetMatches,
         knowledgeBaseSize |-> Len(kb),
         datasetEnhanced |-> loaded,
         totalIssues |-> acc.totalIssues,
         totalConfidence |-> acc.totalConfidence,
         rawConfidence |-> confidence,
         dividedBy |-> DividedBy(acc)]

\* Lines 235-258 over the accumulators of the scan: the scores and the
\* returned EnhancedAnalysisResult, with the locals totalIssues,
\* totalConfidence and the unrounded confidence kept for inspection.
ResultOf(acc, kb, loaded, contractCode) ==
    LET confidence == Confidence(acc)
        gasIssues == ScanGas(GAS_OPTIMIZATION_PATTERNS, contractCode)
    IN  [op |-> "analyze",
         vulnerabilities |-> acc.vulnerabilities,
         gasOptimizations |-> gasIssues,
         securityScore |-> SecurityScore(acc.totalIssues),
         detailedAnalysis |->
             generateEnhancedDetailedAnalysis(Len(kb), loaded, acc.vulnerabilities,
                                              gasIssues, acc.datasetMatches, confidence),
         confidence |-> RoundToTenths(confidence),
         datasetMatches |-> acc.datasetMatches,
         knowledgeBaseSize |-> Len(kb),
         datasetEnhanced |-> loaded,
         totalIssues |-> acc.totalIssues,
         totalConfidence |-> acc.totalConfidence,
         rawConfidence |-> confidence,
         dividedBy |-> DividedBy(acc)]

\* Variant: datasetEnhanced is always false.
AnalysisWithoutFlag(kb, loaded, contractCode) ==
    ResultOf(ScanVulnerabilities(kb, contractCode, ScanStart), kb, FALSE, contractCode)

\* analyzeContractWithConfidence(contractCode) on the catalog kb with the
\* flag datasetPatternsLoaded = loaded
analyzeContractWithConfidence(kb, loaded, contractCode) ==
    ResultOf(ScanVulnerabilities(kb, contractCode, ScanStart), kb, loaded, contractCode)

\* --------------------------------------------- recommendations and prompt
\* analyzeContract(contractCode): the fields copied from the enhanced result
\* Variant: the original method analyses with the base patterns alone.
analyzeContractOnBasePatterns(kb, loaded, contractCode) ==
    LET original == analyzeContractWithConfidence(BASE_VULNERABILITY_PATTERNS, FALSE,
                                                  contractCode)
    IN  [op |-> "basic",
         vulnerabilities |-> original.vulnerabilities,
         gasOptimizations |-> original.gasOptimizations,
         securityScore |-> original.securityScore,
         detailedAnalysis |-> original.detailedAnalysis]

analyzeContract(kb, loaded, contractCode) ==
    LET enhanced == analyzeContractWithConfidence(kb, loaded, contractCode)
    IN  [op |-> "basic",
         vulnerabilities |-> enhanced.vulnerabilities,
         gasOptimizations |-> enhanced.gasOptimizations,
         securityScore |-> enhanced.securityScore,
         detailedAnalysis |-> enhanced.detailedAnalysis]

\* Variant: `if (contractCode.match(vuln.pattern))` dropped.
RECURSIVE PushRecommendationsAll(_, _)
PushRecommendationsAll(kb, contractCode) ==
    IF kb = << >> THEN << >>
    ELSE << RecommendationOf(Head(kb)) >> \o PushRecommendationsAll(Tail(kb), contractCode)

\* The forEach of getContextualRecommendations:
\* if (contractCode.match(vuln.pattern)) recommendations.push(vuln.recommendation)
RECURSIVE PushRecommendations(_, _)
PushRecommendations(kb, contractCode) ==
    IF kb = << >> THEN << >>
    ELSE (IF MatchCount(contractCode, PatternOf(Head(kb))) > 0
          THEN << RecommendationOf(Head(kb)) >> ELSE << >>)
         \o PushRecommendations(Tail(kb), contractCode)

\* new Set(list): the values are added one by one, a Set keeps insertion
\* order and ignores the add of a value it holds
RECURSIVE SetAddAll(_, _)
SetAddAll(held, list) ==
    IF list = << >> THEN held
    ELSE SetAddAll(IF \E i \in 1..Len(held) : held[i] = Head(list)
                   THEN held ELSE Append(held, Head(list)),
                   Tail(list))

\* [...new Set(list)]
SetSpread(list) ==
    SetAddAll(<< >>, list)

getContextualRecommendations(kb, contractCode) ==
    SetSpread(PushRecommendations(kb, contractCode))

\* list.slice(0, 5)
SliceFive(list) ==
    SubSeq(list, 1, IF Len(list) < 5 THEN Len(list) ELSE 5)

\* The lines under PRE-ANALYSIS FINDINGS: one per bucket that is not empty,
\* `${severity.toUpperCase()}: ${issues.join(', ')}`
FindingLines(found) ==
    LET shown == SelectSeq(SeverityOrder, LAMBDA sev : Len(found[sev]) > 0)
    IN  [i \in 1..Len(shown) |-> [severity |-> shown[i], issues |-> found[shown[i]]]]

\* this.datasetStatistics?.totalContracts || 'N/A'
ContractsAnalyzed(stats) ==
    IF ToString(stats) = ToString(Undefined) THEN "N/A"
    ELSE IF stats.totalContracts = 0 THEN "N/A" ELSE ToString(stats.totalContracts)

\* Variant: the recommendations are collected in a field of the instance that
\* is never emptied, so the list begins with those of the call made before.
PromptWithCarriedRecommendations(kb, loaded, stats, contractCode) ==
    LET analysis == analyzeContractWithConfidence(kb, loaded, contractCode)
        contextualRecommendations ==
            SetSpread(PushRecommendations(kb, text) \o PushRecommendations(kb, contractCode))
    IN  [op |-> "prompt",
         datasetInfo |-> IF loaded
                         THEN << [patterns |-> Len(kb),
                                  datasetMatches |-> analysis.datasetMatches,
                                  confidence |-> analysis.confidence,
                                  contracts |-> ContractsAnalyzed(stats)] >>
                         ELSE << >>,
         findings |-> FindingLines(analysis.vulnerabilities),
         recommendations |-> SliceFive(contextualRecommendations),
         contractCode |-> contractCode,
         knowledgeBaseSize |-> Len(kb)]

\* generateEnhancedPromptWithDataset(contractCode): what the template is
\* filled with, in the order of the text.  datasetInfo is the empty text or
\* one block; the recommendations are numbered from 1 by their position.
generateEnhancedPromptWithDataset(kb, loaded, stats, contractCode) ==
    LET analysis == analyzeContractWithConfidence(kb, loaded, contractCode)
        contextualRecommendations == getContextualRecommendations(kb, contractCode)
    IN  [op |-> "prompt",
         datasetInfo |-> IF loaded
                         THEN << [patterns |-> Len(kb),
                                  datasetMatches |-> analysis.datasetMatches,
                                  confidence |-> analysis.confidence,
                                  contracts |-> ContractsAnalyzed(stats)] >>
                         ELSE << >>,
         findings |-> FindingLines(analysis.vulnerabilities),
         recommendations |-> SliceFive(contextualRecommendations),
         contractCode |-> contractCode,
         knowledgeBaseSize |-> Len(kb)]

\* ------------------------------------------------------- the catalog's life
\* What `await import('@/data/knowledge-base-config')` can give:
\*  "absent"       the import rejects (no such module, or it fails to evaluate)
\*  "noExport"     a module without ENHANCED_VULNERABILITY_PATTERNS
\*  "notIterable"  a module whose ENHANCED_VULNERABILITY_PATTERNS cannot be spread
\*  "shipped"      the shipped module
\*  "other"        a module exporting OTHER_ENHANCED_PATTERNS
\*  "badPattern"   a module whose source holds the shipped entries and one more
\*                 whose expression does not compile: evaluating the module
\*                 throws a SyntaxError and the import rejects
ImportOutcomes == {"absent", "noExport", "notIterable", "shipped", "other", "badPattern"}

\* The entry of the "badPattern" module whose expression does not compile.
BROKEN_PATTERN == EnhPattern("enhanced_broken", "high", 50)

\* The entries written in the source of the module.
SourceEntries(outcome) ==
    CASE outcome = "shipped"    -> ENHANCED_VULNERABILITY_PATTERNS
      [] outcome = "other"      -> OTHER_ENHANCED_PATTERNS
      [] outcome = "badPattern" -> ENHANCED_VULNERABILITY_PATTERNS \o << BROKEN_PATTERN >>
      [] OTHER                  -> << >>

ModulePatterns(outcome) ==
    IF outcome = "shipped" THEN ENHANCED_VULNERABILITY_PATTERNS ELSE OTHER_ENHANCED_PATTERNS

\* enhancedModule.DATASET_STATISTICS
ModuleStatistics(outcome) ==
    IF outcome = "shipped" THEN [totalContracts |-> 10] ELSE [totalContracts |-> 2]

\* The try block runs to its end and sets the flag.
Loads(outcome) == outcome \in {"shipped", "other"}

\* The try block throws: the import rejects, or push(...x) throws a TypeError.
TryThrows(outcome) == outcome \in {"absent", "notIterable", "badPattern"}

\* The catch block only logs.
CatchThrows == FALSE

\* Variant: no catch block around the import.
LoadPromiseUncaught(outcome) ==
    IF TryThrows(outcome) THEN "rejected" ELSE "resolved"

\* How the promise of loadEnhancedPatterns settles: what the try block throws
\* goes to the catch block, and only a throw from there rejects the promise.
LoadPromise(outcome) ==
    IF TryThrows(outcome) /\ CatchThrows THEN "rejected" ELSE "resolved"

\* Variant: the filter keeps nothing.
ClearedAll(kb) ==
    << >>

\* this.knowledgeBase.vulnerabilities.filter(p => !p.id.includes('enhanced_'))
Cleared(kb) ==
    SelectSeq(kb, LAMBDA p : ~IdIncludesEnhanced(p.id))

\* How the promise of reloadEnhancedPatterns settles once its await has:
\* return this.datasetPatternsLoaded, or return false from the catch block
\* when the awaited promise rejected.
ReloadPromise(loadStatus, loaded) ==
    [status |-> IF loadStatus = "rejected" /\ CatchThrows THEN "rejected" ELSE "resolved",
     value |-> IF loadStatus = "rejected" THEN FALSE ELSE loaded]

RemoveAt(seq, i) ==
    SubSeq(seq, 1, i - 1) \o SubSeq(seq, i + 1, Len(seq))

Quiet == /\ text' = << >>
         /\ prev' = NoRet

\* reloadEnhancedPatterns() up to the await inside loadEnhancedPatterns
Reload ==
    /\ Len(tasks) < MaxInFlight
    /\ vulnerabilities' = Cleared(vulnerabilities)
    /\ tasks' = Append(tasks, [kind |-> "reload", pc |-> "import", load |-> "pending"])
    /\ ret' = NoRet
    /\ Quiet
    /\ UNCHANGED <<datasetStatistics, datasetPatternsLoaded, lastLoad, vulnerabilityPatterns, page>>

\* loadEnhancedPatterns() from the await to its end, for the pending call i
ImportSettles(i, outcome) ==
    /\ i \in 1..Len(tasks)
    /\ tasks[i].pc = "import"
    /\ IF Loads(outcome)
       THEN /\ vulnerabilities' = vulnerabilities \o ModulePatterns(outcome)
            /\ datasetStatistics' = ModuleStatistics(outcome)
            /\ datasetPatternsLoaded' = TRUE
       ELSE UNCHANGED <<vulnerabilities, datasetStatistics, datasetPatternsLoaded>>
    /\ lastLoad' = IF Loads(outcome) THEN "loaded" ELSE "failed"
    /\ tasks' = IF tasks[i].kind = "reload"
                THEN [tasks EXCEPT ![i] = [kind |-> "reload", pc |-> "return",
                                           load |-> LoadPromise(outcome)]]
                ELSE RemoveAt(tasks, i)
    /\ ret' = [op |-> "load", kind |-> tasks[i].kind, outcome |-> outcome,
               status |-> LoadPromise(outcome)]
    /\ Quiet
    /\ UNCHANGED <<vulnerabilityPatterns, page>>

\* reloadEnhancedPatterns() after its await: return this.datasetPatternsLoaded,
\* or false from the catch block
ReloadReturns(i) ==
    /\ i \in 1..Len(tasks)
    /\ tasks[i].pc = "return"
    /\ ret' = [op |-> "reload",
               status |-> ReloadPromise(tasks[i].load, datasetPatternsLoaded).status,
               value |-> ReloadPromise(tasks[i].load, datasetPatternsLoaded).value]
    /\ tasks' = RemoveAt(tasks, i)
    /\ Quiet
    /\ UNCHANGED <<vulnerabilities, datasetStatistics, datasetPatternsLoaded, lastLoad, vulnerabilityPatterns, page>>

getDatasetInfo ==
    [op |-> "info", isEnhanced |-> datasetPatternsLoaded,
     patternCount |-> Len(vulnerabilities), datasetStats |-> datasetStatistics]

GetDatasetInfo ==
    /\ ret.op # "info"
    /\ ret' = getDatasetInfo
    /\ Quiet
    /\ UNCHANGED <<vulnerabilities, datasetStatistics, datasetPatternsLoaded, tasks, lastLoad, vulnerabilityPatterns, page>>

\* One call of analyzeContractWithConfidence(t), t drawn from the texts T, made
\* once the value returned before has been dropped.
Analyze(T) ==
    /\ ret.op # "analyze"
    /\ \E t \in T :
          /\ text' = t
          /\ ret' = analyzeContractWithConfidence(vulnerabilities, datasetPatternsLoaded, t)
    /\ prev' = NoRet
    /\ UNCHANGED <<vulnerabilities, datasetStatistics, datasetPatternsLoaded, tasks, lastLoad, vulnerabilityPatterns, page>>

\* Two calls in one turn: on the text just analysed and on that text with
\* the lines of a run r of R appended.
AnalyzeAppended(R) ==
    /\ ret.op = "analyze"
    /\ prev = NoRet
    /\ Len(text) < MaxRuns
    /\ \E r \in R : text' = Append(text, r)
    /\ prev' = analyzeContractWithConfidence(vulnerabilities, datasetPatternsLoaded, text)
    /\ ret' = analyzeContractWithConfidence(vulnerabilities, datasetPatternsLoaded, text')
    /\ UNCHANGED <<vulnerabilities, datasetStatistics, datasetPatternsLoaded, tasks, lastLoad, vulnerabilityPatterns, page>>

\* The caller is done with the value returned.
Discard ==
    /\ ret.op # "none"
    /\ ret' = NoRet
    /\ Quiet
    /\ UNCHANGED <<vulnerabilities, datasetStatistics, datasetPatternsLoaded, tasks, lastLoad, vulnerabilityPatterns, page>>

\* After `new EnhancedSmartContractRAG()`: the base catalog, and the
\* constructor's loadEnhancedPatterns() waiting for its import.
Init ==
    /\ vulnerabilities = BASE_VULNERABILITY_PATTERNS
    /\ datasetStatistics = Undefined
    /\ datasetPatternsLoaded = FALSE
    /\ tasks = << [kind |-> "init", pc |-> "import", load |-> "pending"] >>
    /\ text = << >>
    /\ prev = NoRet
    /\ ret = NoRet
    /\ lastLoad = "none"
    /\ vulnerabilityPatterns = << >>
    /\ page = InitialPage

LiveTexts == TextsUpTo(MaxRuns - 1)

Next ==
    \/ \E i \in 1..MaxInFlight, outcome \in ImportOutcomes : ImportSettles(i, outcome)
    \/ \E i \in 1..MaxInFlight : ReloadReturns(i)
    \/ Reload
    \/ GetDatasetInfo
    \/ Analyze(LiveTexts)
    \/ Discard

Spec == Init /\ [][Next]_vars

\* ------------------------------------------- scoring over settled catalogs
\* The states of the knowledge base in which no load is pending, as Spec
\* reaches them: base only; one load; the constructor's load and a reload
\* overlapping; a failed reload after a load.
SettledStates ==
    { [kb |-> BASE_VULNERABILITY_PATTERNS, loaded |-> FALSE, stats |-> Undefined],
      [kb |-> BASE_VULNERABILITY_PATTERNS \o ENHANCED_VULNERABILITY_PATTERNS,
       loaded |-> TRUE, stats |-> ModuleStatistics("shipped")],
      [kb |-> BASE_VULNERABILITY_PATTERNS \o OTHER_ENHANCED_PATTERNS,
       loaded |-> TRUE, stats |-> ModuleStatistics("other")],
      [kb |-> BASE_VULNERABILITY_PATTERNS \o ENHANCED_VULNERABILITY_PATTERNS
                 \o OTHER_ENHANCED_PATTERNS,
       loaded |-> TRUE, stats |-> ModuleStatistics("other")],
      [kb |-> BASE_VULNERABILITY_PATTERNS, loaded |-> TRUE,
       stats |-> ModuleStatistics("shipped")] }

InitScore ==
    /\ \E k \in SettledStates :
          /\ vulnerabilities = k.kb
          /\ datasetStatistics = k.stats
          /\ datasetPatternsLoaded = k.loaded
    /\ tasks = << >>
    /\ text = << >>
    /\ prev = NoRet
    /\ ret = NoRet
    /\ lastLoad = "none"
    /\ vulnerabilityPatterns = << >>
    /\ page = InitialPage

NextScore ==
    \/ Analyze(Texts)
    \/ AnalyzeAppended(Runs)
    \/ Discard

SpecScore == InitScore /\ [][NextScore]_vars

\* ------------------------------------------- whole contracts and prompts
\* The lines of a whole contract, in the order they stand in it.
ContractLines ==
    << "selfdestruct", "txorigin", "callvalue", "call", "delegate", "timestamp",
       "func", "send", "arith", "arithnote" >>

\* The text made of those lines of the list that are in S, one line each.
LinesOf(list, S) ==
    LET kept == SelectSeq(list, LAMBDA s : s \in S)
    IN  [i \in 1..Len(kept) |-> << kept[i], 1 >>]

Contracts ==
    {LinesOf(ContractLines, S) : S \in SUBSET {ContractLines[i] : i \in 1..Len(ContractLines)}}

PromptTexts == LiveTexts \cup Contracts

\* Texts of one run at most, for the calls of a second caller.
OneLiners == TextsUpTo(1)

AnalysisOps == {"analyze", "basic", "recs", "prompt"}

\* What one call of the operation op returns on the catalog as it stands.
Call(op, contractCode) ==
    CASE op = "analyze" ->
            analyzeContractWithConfidence(vulnerabilities, datasetPatternsLoaded, contractCode)
      [] op = "basic" ->
            analyzeContract(vulnerabilities, datasetPatternsLoaded, contractCode)
      [] op = "recs" ->
            [op |-> "recs",
             list |-> getContextualRecommendations(vulnerabilities, contractCode)]
      [] op = "prompt" ->
            generateEnhancedPromptWithDataset(vulnerabilities, datasetPatternsLoaded,
                                              datasetStatistics, contractCode)

\* Variant: the backward-compatible call switches the flag off, to report as
\* the engine without dataset did.
AnalyzeContractClearingFlag(T) ==
    /\ ret = NoRet
    /\ prev = NoRet
    /\ \E t \in T :
          /\ text' = t
          /\ ret' = Call("basic", t)
    /\ prev' = NoRet
    /\ datasetPatternsLoaded' = FALSE
    /\ UNCHANGED <<vulnerabilities, datasetStatistics, tasks, lastLoad, vulnerabilityPatterns, page>>

\* One call of analyzeContract(t)
AnalyzeContract(T) ==
    /\ ret = NoRet
    /\ prev = NoRet
    /\ \E t \in T :
          /\ text' = t
          /\ ret' = Call("basic", t)
    /\ prev' = NoRet
    /\ UNCHANGED <<vulnerabilities, datasetStatistics, datasetPatternsLoaded, tasks, lastLoad, vulnerabilityPatterns, page>>

\* Two calls in one turn on the same text, as lines 350-351 make them:
\* analyzeContractWithConfidence(t), then getContextualRecommendations(t)
Recommend(T) ==
    /\ ret = NoRet
    /\ prev = NoRet
    /\ \E t \in T :
          /\ text' = t
          /\ prev' = Call("analyze", t)
          /\ ret' = Call("recs", t)
    /\ UNCHANGED <<vulnerabilities, datasetStatistics, datasetPatternsLoaded, tasks, lastLoad, vulnerabilityPatterns, page>>

\* One call of generateEnhancedPromptWithDataset(t)
GeneratePrompt(T) ==
    /\ ret = NoRet
    /\ prev = NoRet
    /\ \E t \in T :
          /\ text' = t
          /\ ret' = Call("prompt", t)
    /\ prev' = NoRet
    /\ UNCHANGED <<vulnerabilities, datasetStatistics, datasetPatternsLoaded, tasks, lastLoad, vulnerabilityPatterns, page>>

\* The caller keeps the prompt it was returned.
KeepPrompt ==
    /\ ret.op = "prompt"
    /\ prev = NoRet
    /\ Len(text) < MaxRuns
    /\ prev' = ret
    /\ ret' = NoRet
    /\ text' = << >>
    /\ UNCHANGED <<vulnerabilities, datasetStatistics, datasetPatternsLoaded, tasks, lastLoad, vulnerabilityPatterns, page>>

\* While the first caller keeps its prompt, a second caller makes an
\* analysis call on a text of T.
CallWhileKept(T) ==
    /\ prev.op = "prompt"
    /\ ret = NoRet
    /\ \E op \in AnalysisOps \ {"prompt"}, t \in T :
          /\ text' = t
          /\ ret' = Call(op, t)
    /\ UNCHANGED <<vulnerabilities, datasetStatistics, datasetPatternsLoaded, tasks,
                   lastLoad, prev, vulnerabilityPatterns, page>>

\* After the calls of the second caller the first caller calls
\* generateEnhancedPromptWithDataset again on the text of the prompt it keeps.
GeneratePromptAgain ==
    /\ prev.op = "prompt"
    /\ ret.op \in AnalysisOps \ {"prompt"}
    /\ text' = prev.contractCode
    /\ ret' = Call("prompt", prev.contractCode)
    /\ UNCHANGED <<vulnerabilities, datasetStatistics, datasetPatternsLoaded, tasks,
                   lastLoad, prev, vulnerabilityPatterns, page>>

NextPrompt ==
    \/ AnalyzeContract(PromptTexts)
    \/ Recommend(PromptTexts)
    \/ GeneratePrompt(PromptTexts)
    \/ KeepPrompt
    \/ CallWhileKept(OneLiners)
    \/ GeneratePromptAgain
    \/ Discard

SpecPrompt == InitScore /\ [][NextPrompt]_vars

\* ------------------------------------- the detectors of DatasetProcessor
\* (src/utils/datasetProcessor.ts)  In this part a text is a sequence of
\* lines, and a pattern stands in a list of detected patterns by its id.
\*  "plain"      pragma solidity ^0.8.0;
\*  "callvalue"  msg.sender.call{value: amount}("");
\*  "call"       target.call(data);
\*  "send"       payable(to).send(amount);
\*  "transfer"   payable(to).transfer(amount);
\*  "reset"      balances[msg.sender] = 0;
\*  "resetto"    balances[to] = 0;
\*  "check"      require(balances[to] >= amount);
\*  "mapping"    mapping(address => uint256) public balances;
\*  "resetcall"  balances[to] = 0; to.call{value: amount}("");
Lines == {"plain", "callvalue", "call", "send", "transfer", "reset", "resetto",
          "check", "mapping", "resetcall"}

\* The strings tested with includes() in analyzeWithAcademicPatterns and
\* checkCallValueBeforeStateChange that the line includes ("msg.sender"
\* includes ".send"); "pragma solidity ^0.[89]" stands for the expression
\* /pragma solidity \^0\.[89]/.
TokensOf(line) ==
    CASE line = "plain"     -> {"pragma solidity ^0.[89]"}
      [] line = "callvalue" -> {".call", ".call{value:", ".send"}
      [] line = "call"      -> {".call", ".call("}
      [] line = "send"      -> {".send", ".send(", "send("}
      [] line = "transfer"  -> {".transfer(", "transfer("}
      [] line = "reset"     -> {".send", "=", "balances["}
      [] line = "resetto"   -> {"=", "balances["}
      [] line = "check"     -> {"=", "balances[", "require("}
      [] line = "mapping"   -> {"=", "mapping("}
      [] line = "resetcall" -> {".call", ".call{value:", "=", "balances["}
      [] line = "blank"     -> {}
      [] line = "func"      -> {"=", "function"}
      [] line = "contract"  -> {}

RECURSIVE CodesUpTo(_)
CodesUpTo(n) ==
    IF n = 0 THEN {<< >>}
    ELSE LET shorter == CodesUpTo(n - 1)
         IN  shorter \cup {Append(c, l) : c \in {u \in shorter : Len(u) = n - 1}, l \in Lines}

Codes == CodesUpTo(MaxLines)

\* line.includes(token)
LineIncludes(line, token) == token \in TokensOf(line)

\* code.includes(token): no token holds a line break
Includes(code, token) == \E i \in 1..Len(code) : LineIncludes(code[i], token)

ACADEMIC_PATTERNS ==
    << [id |-> "reentrancy", severity |-> "critical"],
       [id |-> "timestamp_dependency", severity |-> "medium"],
       [id |-> "block_number_dependency", severity |-> "medium"],
       [id |-> "dangerous_delegatecall", severity |-> "critical"],
       [id |-> "ether_frozen", severity |-> "high"],
       [id |-> "unchecked_external_call", severity |-> "high"],
       [id |-> "integer_overflow", severity |-> "critical"],
       [id |-> "dangerous_ether_strict_equality", severity |-> "medium"] >>

\* this.vulnerabilityPatterns.find(p => p.id === id)!
FindPattern(patterns, id) ==
    IF \E i \in 1..Len(patterns) : patterns[i].id = id THEN id ELSE "undefined"

\* The forEach of checkCallValueBeforeStateChange from the line with index
\* `index` (counted from 0) on: the indexes are overwritten at every line
\* that passes the test.
RECURSIVE ScanLines(_, _, _, _)
ScanLines(lines, index, callIndex, stateIndex) ==
    IF lines = << >> THEN [callIndex |-> callIndex, stateIndex |-> stateIndex]
    ELSE LET line == Head(lines)
         IN  ScanLines(Tail(lines), index + 1,
                 IF LineIncludes(line, ".call") \/ LineIncludes(line, ".send")
                 THEN index ELSE callIndex,
                 IF LineIncludes(line, "balances[") /\ LineIncludes(line, "=")
                 THEN index ELSE stateIndex)

checkCallValueBeforeStateChange(code) ==
    LET last == ScanLines(code, 0, -1, -1)
    IN  /\ last.callIndex # -1
        /\ last.stateIndex # -1
        /\ last.callIndex < last.stateIndex

\* detectedPatterns.push(this.vulnerabilityPatterns.find(...)!) when cond holds
PushIf(cond, patterns, id) ==
    IF cond THEN << FindPattern(patterns, id) >> ELSE << >>

\* analyzeWithAcademicPatterns(code): the eight detectors in their order
analyzeWithAcademicPatterns(patterns, code) ==
    LET hasCallValue == \/ Includes(code, ".call{value:") \/ Includes(code, ".call.value")
                        \/ Includes(code, ".send(") \/ Includes(code, ".transfer(")
        hasStateChange == \/ Includes(code, "balances[") \/ Includes(code, "balance =")
                          \/ Includes(code, "mapping(")
        hasTimestamp == Includes(code, "block.timestamp") \/ Includes(code, "now")
        inConditional == Includes(code, "if") /\ hasTimestamp
        inRandom == \/ Includes(code, "random") \/ Includes(code, "%")
                    \/ Includes(code, "keccak")
        inBranch == Includes(code, "if") /\ Includes(code, "block.number")
        hasConstraint == \/ Includes(code, "onlyOwner") \/ Includes(code, "require(")
                         \/ Includes(code, "modifier")
        hasParameter == Includes(code, "function") /\ Includes(code, "delegatecall")
        hasArithmetic == \/ Includes(code, "+=") \/ Includes(code, "-=")
                         \/ Includes(code, "*") \/ Includes(code, "/")
        hasProtection == \/ Includes(code, "SafeMath") \/ Includes(code, "unchecked")
                         \/ Includes(code, "pragma solidity ^0.[89]")
        hasExternalCall == \/ Includes(code, ".call(") \/ Includes(code, ".delegatecall(")
                           \/ Includes(code, ".staticcall(")
        checksReturn == /\ Includes(code, "require(")
                        /\ (Includes(code, ".call(") \/ Includes(code, "success"))
        hasBalance == Includes(code, "address(this).balance") \/ Includes(code, "this.balance")
        inCondition == \/ Includes(code, "==") \/ Includes(code, "!=")
                       \/ Includes(code, "if")
        hasTransferMethod == \/ Includes(code, "transfer(") \/ Includes(code, "send(")
                             \/ Includes(code, "withdraw")
    IN  PushIf(hasCallValue /\ hasStateChange /\ checkCallValueBeforeStateChange(code),
               patterns, "reentrancy")
        \o PushIf(hasTimestamp /\ (inConditional \/ inRandom), patterns, "timestamp_dependency")
        \o PushIf(Includes(code, "block.number") /\ inBranch,
                  patterns, "block_number_dependency")
        \o PushIf(Includes(code, "delegatecall") /\ ~hasConstraint /\ hasParameter,
                  patterns, "dangerous_delegatecall")
        \o PushIf(hasArithmetic /\ ~hasProtection, patterns, "integer_overflow")
        \o PushIf(hasExternalCall /\ ~checksReturn, patterns, "unchecked_external_call")
        \o PushIf(hasBalance /\ inCondition, patterns, "dangerous_ether_strict_equality")
        \o PushIf(Includes(code, "delegatecall") /\ ~hasTransferMethod,
                  patterns, "ether_frozen")

\* getEnhancedPrompt(contractCode, basePrompt): the detected patterns it
\* renders; detectedPatterns.map(p => ... p.name ...) throws a TypeError on
\* an undefined entry.
getEnhancedPrompt(patterns, contractCode) ==
    LET detectedPatterns == analyzeWithAcademicPatterns(patterns, contractCode)
    IN  [op |-> "academic",
         status |-> IF \E i \in 1..Len(detectedPatterns) : detectedPatterns[i] = "undefined"
                    THEN "TypeError" ELSE "returned",
         detectedPatterns |-> detectedPatterns]

\* loadDataset(): initializeAcademicPatterns() runs before the promise is returned
LoadDataset ==
    /\ ret.op # "dataset"
    /\ vulnerabilityPatterns' = ACADEMIC_PATTERNS
    /\ ret' = [op |-> "dataset", totalContracts |-> 57000]
    /\ Quiet
    /\ UNCHANGED <<vulnerabilities, datasetStatistics, datasetPatternsLoaded, tasks,
                   lastLoad, page>>

\* The string of lines `code` as the engine reads it: each line once
EngineText(code) == [i \in 1..Len(code) |-> <<code[i], 1>>]

\* One call of getEnhancedPrompt(t, basePrompt), made once the result of an
\* analysis before has been dropped
GetEnhancedPrompt(T) ==
    /\ ret.op \notin {"academic", "analyze"}
    /\ \E t \in T :
          /\ text' = t
          /\ ret' = getEnhancedPrompt(vulnerabilityPatterns, t)
    /\ prev' = NoRet
    /\ UNCHANGED <<vulnerabilities, datasetStatistics, datasetPatternsLoaded, tasks, lastLoad, vulnerabilityPatterns, page>>

\* The caller that holds what getEnhancedPrompt returned for a string gives
\* the same string to the engine's analyzeContractWithConfidence.
AnalyzeSameCode ==
    /\ ret.op = "academic"
    /\ prev = NoRet
    /\ prev' = ret
    /\ ret' = analyzeContractWithConfidence(vulnerabilities, datasetPatternsLoaded,
                                            EngineText(text))
    /\ UNCHANGED <<vulnerabilities, datasetStatistics, datasetPatternsLoaded, tasks,
                   text, lastLoad, vulnerabilityPatterns, page>>

\* After `new DatasetProcessor()`: private vulnerabilityPatterns = [], beside
\* an engine whose loads have settled
InitHeuristic ==
    /\ \E k \in SettledStates :
          /\ vulnerabilities = k.kb
          /\ datasetStatistics = k.stats
          /\ datasetPatternsLoaded = k.loaded
    /\ tasks = << >>
    /\ text = << >>
    /\ prev = NoRet
    /\ ret = NoRet
    /\ lastLoad = "none"
    /\ vulnerabilityPatterns = << >>
    /\ page = InitialPage

NextHeuristic ==
    \/ LoadDataset
    \/ GetEnhancedPrompt(Codes)
    \/ AnalyzeSameCode
    \/ Discard

SpecHeuristic == InitHeuristic /\ [][NextHeuristic]_vars

\* ------------------------------------------------------- the audit page
\* (src/app/audit/page.tsx)  The code in the text area is a sequence of
\* lines as above, with the further lines
\*  "blank"     three spaces
\*  "func"      function setOwner(address newOwner) public { owner = newOwner; }
\*  "contract"  contract Vault {
\* Stars are held in tenths of a star.
COOLDOWN_TIME == 30

MaxCriticalReported == 3

PageCodes ==
    { << >>, << "blank" >>, << "func" >>, << "plain", "func" >>,
      << "contract", "func", "send", "resetto" >> }

\* The example the page offers once the dataset is loaded
ExampleCode == << "plain", "contract", "func", "callvalue", "reset" >>

\* !code.trim()
TrimIsEmpty(code) == \A i \in 1..Len(code) : code[i] = "blank"

\* isSolidityCode(code): the three expressions tested on the lines above
isSolidityCode(code) ==
    LET hasPragma == \E i \in 1..Len(code) : code[i] = "plain"
        hasContractLike == \E i \in 1..Len(code) : code[i] = "contract"
        hasSolidityKeywords == \E i \in 1..Len(code) : code[i] = "func"
    IN  (hasPragma \/ hasContractLike) /\ hasSolidityKeywords

EnterCode == "Please enter your smart contract code."
InvalidInput == "Invalid input. Please ensure your code is a valid Solidity smart contract."
AnalysisFailed == "Analysis failed. Please try again in a few moments."

\* n entries of a list of the response
Issues(n) == [i \in 1..n |-> "issue"]

\* The stars an LLM response may carry, in tenths: -1, 0, 2.5, 4.5, 5, 6
LlmStars == {-10, 0, 25, 45, 50, 60}

\* The objects JSON.parse may return: the fields the page reads
ParsedResponses ==
    { [stars |-> st,
       vulnerabilities |-> [critical |-> Issues(c), high |-> Issues(h),
                            medium |-> << >>, low |-> << >>]] :
        st \in LlmStars, c \in 0..MaxCriticalReported, h \in 0..1 }

\* How the awaited chat.complete and the lines up to the schema go:
\*  "throws"     the call rejects
\*  "notString"  the content of the first choice is no string
\*  "notJson"    JSON.parse throws
\*  "parsed"     JSON.parse returns the object `response`
LlmOutcomes ==
    { [kind |-> k] : k \in {"throws", "notString", "notJson"} }
    \cup { [kind |-> "parsed", response |-> r] : r \in ParsedResponses }

\* VulnerabilitySchema.parse(parsedResponse) returns: stars is a number
\* within 0..5 (the other fields have their types in every response above)
SchemaAccepts(parsed) == parsed.stars >= 0 /\ parsed.stars <= 50

Min(a, b) == IF a < b THEN a ELSE b

\* Variant: the rating is raised to the limit, Math.max in place of Math.min.
EnforceRatingByMax(validatedResponse) ==
    LET critical == Len(validatedResponse.vulnerabilities["critical"])
        high == Len(validatedResponse.vulnerabilities["high"])
        s1 == IF critical > 0 /\ validatedResponse.stars < 20 THEN 20
              ELSE validatedResponse.stars
        s2 == IF high > 0 /\ s1 < 30 THEN 30 ELSE s1
        s3 == IF critical > 2 THEN 0 ELSE s2
    IN  [validatedResponse EXCEPT !.stars = s3]

\* Lines 370-379: "Enforce strict rating based on vulnerabilities"
EnforceStrictRating(validatedResponse) ==
    LET critical == Len(validatedResponse.vulnerabilities["critical"])
        high == Len(validatedResponse.vulnerabilities["high"])
        s1 == IF critical > 0 THEN Min(validatedResponse.stars, 20)
              ELSE validatedResponse.stars
        s2 == IF high > 0 THEN Min(s1, 30) ELSE s1
        s3 == IF critical > 2 THEN 0 ELSE s2
    IN  [validatedResponse EXCEPT !.stars = s3]

\* Variant: no finally block, the flag stays set.
FinallySkipped(p) == [p EXCEPT !.run = "idle"]

\* finally { setIsAnalyzing(false) }, the call of analyzeContract ends
Finally(p) == [p EXCEPT !.isAnalyzing = FALSE, !.run = "idle"]

\* catch: setError('Analysis failed. ...'), then the finally block
CatchAndFinally(p) == Finally([p EXCEPT !.error = AnalysisFailed])

EngineIdle ==
    UNCHANGED <<vulnerabilities, datasetStatistics, datasetPatternsLoaded, tasks, lastLoad>>

\* The effect of lines 128-142 up to its await: datasetProcessor.loadDataset()
\* fills the patterns of the processor.
LoadDatasetEffect ==
    /\ page.effect = "mount"
    /\ vulnerabilityPatterns' = ACADEMIC_PATTERNS
    /\ page' = [page EXCEPT !.effect = "await"]
    /\ EngineIdle
    /\ UNCHANGED <<text, prev, ret>>

\* The effect after its await: setDatasetLoaded(true)
DatasetLoaded ==
    /\ page.effect = "await"
    /\ page' = [page EXCEPT !.datasetLoaded = TRUE, !.effect = "done"]
    /\ EngineIdle
    /\ UNCHANGED <<text, prev, ret, vulnerabilityPatterns>>

\* onChange of the text area, which is disabled while isAnalyzing
SetCode(code) ==
    /\ ~page.isAnalyzing
    /\ code # page.code
    /\ page' = [page EXCEPT !.code = code]
    /\ EngineIdle
    /\ UNCHANGED <<text, prev, ret, vulnerabilityPatterns>>

\* onClick of the example button, shown while datasetLoaded && !result
SetExampleCode ==
    /\ page.datasetLoaded
    /\ page.result = Null
    /\ page.code # ExampleCode
    /\ page' = [page EXCEPT !.code = ExampleCode]
    /\ EngineIdle
    /\ UNCHANGED <<text, prev, ret, vulnerabilityPatterns>>

\* The prompt sent as the system message
EnhancedPromptOf(p) ==
    IF p.datasetLoaded THEN getEnhancedPrompt(vulnerabilityPatterns, p.code)
    ELSE [op |-> "basePrompt", status |-> "returned"]

\* analyzeContract() from the click on the button (enabled unless
\* isAnalyzing || !code || cooldown > 0) to its first await or its return
ClickAnalyze ==
    /\ ~page.isAnalyzing
    /\ page.code # << >>
    /\ page.cooldown = 0
    /\ page' =
          IF TrimIsEmpty(page.code) THEN [page EXCEPT !.error = EnterCode]
          ELSE IF ~isSolidityCode(page.code) THEN [page EXCEPT !.error = InvalidInput]
          ELSE LET started == [page EXCEPT !.error = "null", !.isAnalyzing = TRUE,
                                           !.isReviewBlurred = TRUE]
               IN  IF EnhancedPromptOf(page).status = "TypeError"
                   THEN CatchAndFinally(started)
                   ELSE [started EXCEPT !.run = "llm"]
    /\ text' = page.code
    /\ prev' = NoRet
    /\ ret' = IF ~TrimIsEmpty(page.code) /\ isSolidityCode(page.code)
              THEN EnhancedPromptOf(page) ELSE NoRet
    /\ EngineIdle
    /\ UNCHANGED vulnerabilityPatterns

\* analyzeContract() from the await of chat.complete: on to the await of
\* detectCurrentNetwork() when the response passes the schema, else through
\* the catch and finally blocks to its end
LlmSettles(outcome) ==
    /\ page.run = "llm"
    /\ page' =
          IF outcome.kind = "parsed" /\ SchemaAccepts(outcome.response)
          THEN [page EXCEPT !.result = EnforceStrictRating(outcome.response),
                            !.showResult = TRUE,
                            !.cooldown = COOLDOWN_TIME,
                            !.run = "network"]
          ELSE CatchAndFinally(page)
    /\ ret' = [op |-> "llm", outcome |-> outcome]
    /\ EngineIdle
    /\ UNCHANGED <<text, prev, vulnerabilityPatterns>>

\* analyzeContract() from the await of detectCurrentNetwork(), which catches
\* what it throws, to the end of the finally block
NetworkSettles ==
    /\ page.run = "network"
    /\ page' = Finally(page)
    /\ EngineIdle
    /\ UNCHANGED <<text, prev, ret, vulnerabilityPatterns>>

\* The interval of the cooldown effect, set while cooldown > 0:
\* setCooldown(prev => Math.max(0, prev - 1))
Tick ==
    /\ page.cooldown > 0
    /\ page' = [page EXCEPT !.cooldown = IF @ - 1 < 0 THEN 0 ELSE @ - 1]
    /\ EngineIdle
    /\ UNCHANGED <<text, prev, ret, vulnerabilityPatterns>>

\* registerAuditOnChain(): contract.registerAudit(contractHash, result.stars,
\* result.summary) is sent, and when the transaction succeeds the review is
\* shown (txState is left out)
RegisterAudit(succeeds) ==
    /\ page.result # Null
    /\ page.code # << >>
    /\ page.run = "idle"
    /\ ret.op # "register"
    /\ ret' = [op |-> "register", stars |-> page.result.stars, code |-> page.code]
    /\ page' = IF succeeds THEN [page EXCEPT !.isReviewBlurred = FALSE] ELSE page
    /\ EngineIdle
    /\ UNCHANGED <<text, prev, vulnerabilityPatterns>>

\* The page after its first render, the dataset processor as constructed
InitPage ==
    /\ vulnerabilities = BASE_VULNERABILITY_PATTERNS
    /\ datasetStatistics = Undefined
    /\ datasetPatternsLoaded = FALSE
    /\ tasks = << >>
    /\ text = << >>
    /\ prev = NoRet
    /\ ret = NoRet
    /\ lastLoad = "none"
    /\ vulnerabilityPatterns = << >>
    /\ page = InitialPage

LlmSettlesSomehow == \E outcome \in LlmOutcomes : LlmSettles(outcome)

NextPage ==
    \/ LoadDatasetEffect
    \/ DatasetLoaded
    \/ \E code \in PageCodes : SetCode(code)
    \/ SetExampleCode
    \/ ClickAnalyze
    \/ LlmSettlesSomehow
    \/ NetworkSettles
    \/ Tick
    \/ \E succeeds \in BOOLEAN : RegisterAudit(succeeds)

SpecPage == InitPage /\ [][NextPage]_vars

\* The awaited promises settle (the chat call resolves or rejects,
\* detectCurrentNetwork returns), and the interval fires while it is set.
SpecPageFair ==
    /\ SpecPage
    /\ WF_vars(LlmSettlesSomehow)
    /\ WF_vars(NetworkSettles)
    /\ WF_vars(Tick)

\* ------------------------------------------------------------- properties
\* The catalog entries that fire on a text, and sums over them.
Firing(kb, code) == {i \in 1..Len(kb) : MatchCount(code, PatternOf(kb[i])) > 0}

FiringOf(kb, code, sev) == {i \in Firing(kb, code) : kb[i].severity = sev}

WeightTable == [critical |-> 4, high |-> 3, medium |-> 2, low |-> 1]

WeightedTotal(kb, code) ==
    SumSeq([i \in 1..Len(kb) |->
               MatchCount(code, PatternOf(kb[i])) * WeightTable[kb[i].severity]])

Clamp(x, lo, hi) == IF x < lo THEN lo ELSE IF x > hi THEN hi ELSE x

Occurrences(seq, x) == Cardinality({i \in 1..Len(seq) : seq[i] = x})

Analysed == ret.op = "analyze"

\* C1: the score of every analysis is clamp(5 - floor(T / 2), 0, 5), T being the
\* sum over the firing patterns of raw match count times severity weight
\* (critical 4, high 3, medium 2, low 1).
C1_ScoreFormula ==
    Analysed =>
        ret.securityScore = Clamp(5 - (WeightedTotal(vulnerabilities, text) \div 2), 0, 5)

\* A medium and a low pattern fire once each: T = 3, score 4.
C1_Witness ==
    /\ Analysed
    /\ FiringOf(vulnerabilities, text, "low") # {}
    /\ WeightedTotal(vulnerabilities, text) = 3
    /\ ret.securityScore = 4

\* C2: in every state of the catalog (a load pending, settled, reloaded) every
\* analysis returns an integer score in 0..5 and a confidence in 0..5
\* (0..50 tenths).
C2_ScoreAndConfidenceRange ==
    Analysed => /\ ret.securityScore \in 0..5
                /\ ret.confidence \in 0..50

\* Both ends are met while a reload is pending: score 0 and confidence 5.0.
C2_Witness ==
    /\ Analysed
    /\ tasks # << >>
    /\ datasetPatternsLoaded
    /\ ret.securityScore = 0
    /\ ret.confidence = 50

\* C3: when no catalog pattern matches the text, the score is 5 and the four
\* findings buckets are empty.
C3_NoMatchIsClean ==
    (Analysed /\ Firing(vulnerabilities, text) = {}) =>
        /\ ret.securityScore = 5
        /\ \A sev \in Severities : ret.vulnerabilities[sev] = << >>

\* A non-empty text on which nothing of an enhanced catalog fires.
C3_Witness ==
    /\ Analysed
    /\ text # << >>
    /\ Len(vulnerabilities) > Len(BASE_VULNERABILITY_PATTERNS)
    /\ Firing(vulnerabilities, text) = {}
    /\ ret.gasOptimizations # << >>

\* The appended lines add matches of a critical pattern that already fired.
CriticalAppended ==
    /\ prev.op = "analyze"
    /\ \E i \in 1..Len(vulnerabilities) :
          /\ vulnerabilities[i].severity = "critical"
          /\ MatchCount(SubSeq(text, 1, Len(text) - 1), PatternOf(vulnerabilities[i])) > 0
          /\ Hits(text[Len(text)][1], PatternOf(vulnerabilities[i])) > 0

\* C4: appending further occurrences of a critical pattern that already fires
\* never raises the score.
C4_ScoreMonotone ==
    CriticalAppended => ret.securityScore <= prev.securityScore

\* The score drops from 3 to 0 when 50 more selfdestruct lines are appended.
C4_Witness ==
    /\ CriticalAppended
    /\ prev.securityScore = 3
    /\ ret.securityScore = 0

\* C5: a firing pattern adds one description to the bucket of its severity
\* however often it matches, while every match weighs on the score: with
\* BigRep matches of unprotected_selfdestruct the score is 0 and the bucket
\* "critical" holds its description once.
C5_OneDescriptionPerPattern ==
    Analysed =>
        /\ \A sev \in Severities :
              Len(ret.vulnerabilities[sev])
                  = Cardinality(FiringOf(vulnerabilities, text, sev))
        /\ MatchCount(text, "unprotected_selfdestruct") >= BigRep =>
              /\ ret.securityScore = 0
              /\ Occurrences(ret.vulnerabilities["critical"],
                             "selfdestruct without proper access control") = 1

\* Only unprotected_selfdestruct fires, BigRep times.
C5_Witness ==
    /\ Analysed
    /\ MatchCount(text, "unprotected_selfdestruct") = BigRep
    /\ Cardinality(Firing(vulnerabilities, text)) = 1
    /\ ret.vulnerabilities["critical"] = << "selfdestruct without proper access control" >>
    /\ ret.securityScore = 0

\* a / b = c / d for fractions with positive denominators
SameFraction(q, r) == q.num * r.den = r.num * q.den

\* C6: with datasetMatches > 0 the confidence is
\* min(totalConfidence / (datasetMatches + #critical + #high) * 5, 5), the two
\* counts being bucket entries; with datasetMatches = 0 it is
\* min(totalConfidence, 5). The result carries it rounded to one decimal.
C6_ConfidenceFormula ==
    Analysed =>
        LET entries == ret.datasetMatches + Len(ret.vulnerabilities["critical"])
                                          + Len(ret.vulnerabilities["high"])
            expected == IF ret.datasetMatches > 0
                        THEN [num |-> 5 * ret.totalConfidence, den |-> 100 * entries]
                        ELSE [num |-> ret.totalConfidence, den |-> 100]
            capped == IF expected.num > 5 * expected.den
                      THEN [num |-> 5, den |-> 1] ELSE expected
        IN  /\ SameFraction(ret.rawConfidence, capped)
            /\ 2 * capped.den * ret.confidence <= 20 * capped.num + capped.den
            /\ 20 * capped.num + capped.den < 2 * capped.den * (ret.confidence + 1)

\* Dataset patterns fire, raw matches outnumber the bucket entries, and the
\* confidence stays under the cap.
C6_Witness ==
    /\ Analysed
    /\ ret.datasetMatches > 0
    /\ MatchCount(text, "reentrancy") > 1
    /\ Len(ret.vulnerabilities["critical"]) + Len(ret.vulnerabilities["high"]) > 1
    /\ ret.confidence \in 1..49

\* C7: every firing pattern whose id marks it as enhanced adds its prevalence
\* (0 included) to totalConfidence and one to datasetMatches; every other
\* firing pattern adds 0.5 and leaves datasetMatches alone.
C7_EnhancedAddsPrevalence ==
    Analysed =>
        LET kb == vulnerabilities
            enhanced == {i \in Firing(kb, text) : IdIncludesEnhanced(kb[i].id)}
            terms == [i \in 1..Len(kb) |->
                         IF i \notin Firing(kb, text) THEN 0
                         ELSE IF i \in enhanced THEN kb[i].prevalence ELSE 50]
        IN  /\ ret.datasetMatches = Cardinality(enhanced)
            /\ ret.totalConfidence = SumSeq(terms)

\* C8: the empty string gives score 5, confidence 0, no dataset match, empty
\* buckets and no gas hint, and datasetEnhanced is the loader's flag, in
\* every state of the catalog.
C8_EmptyString ==
    (Analysed /\ text = << >>) =>
        /\ ret.securityScore = 5
        /\ ret.confidence = 0
        /\ ret.datasetMatches = 0
        /\ \A sev \in Severities : ret.vulnerabilities[sev] = << >>
        /\ ret.gasOptimizations = << >>
        /\ ret.datasetEnhanced = datasetPatternsLoaded

\* The empty string analysed after a load, with a reload pending.
C8_Witness ==
    /\ Analysed
    /\ text = << >>
    /\ datasetPatternsLoaded
    /\ tasks # << >>

\* C9: once the load attempt that settled last has failed, analyses and
\* getDatasetInfo report enhanced = false and 8 patterns.
C9_FailedLoadMeansBaseOnly ==
    lastLoad = "failed" =>
        /\ Analysed => /\ ret.datasetEnhanced = FALSE
                       /\ ret.knowledgeBaseSize = 8
        /\ ret.op = "info" => /\ ret.isEnhanced = FALSE
                              /\ ret.patternCount = 8

\* C10: whatever the import gives, the promise of loadEnhancedPatterns (which
\* the constructor leaves pending) resolves, and reloadEnhancedPatterns
\* resolves to a boolean.
C10_LoadFailureNeverPropagates ==
    /\ ret.op = "load" => ret.status = "resolved"
    /\ ret.op = "reload" => /\ ret.status = "resolved"
                            /\ ret.value \in BOOLEAN

\* A reload whose import was rejected has resolved to false.
C10_Witness ==
    /\ ret.op = "reload"
    /\ lastLoad = "failed"
    /\ ~datasetPatternsLoaded
    /\ ret.value = FALSE

\* -------------------------------------------------- the catalog under reloads
\* The catalog begins with the base patterns, in their order.
BasePrefix(kb) ==
    /\ Len(kb) >= Len(BASE_VULNERABILITY_PATTERNS)
    /\ SubSeq(kb, 1, Len(BASE_VULNERABILITY_PATTERNS)) = BASE_VULNERABILITY_PATTERNS

\* The catalog is the base patterns followed by the patterns of one module.
BaseThenModule(kb) ==
    \E outcome \in ImportOutcomes :
        /\ Loads(outcome)
        /\ kb = BASE_VULNERABILITY_PATTERNS \o ModulePatterns(outcome)

\* C11: the catalog always begins with the 8 base patterns in their order,
\* and once a reloadEnhancedPatterns() has resolved to true after a load that
\* went through, the catalog is the base patterns followed by the patterns of
\* the module, each once.
C11_ReloadTouchesOnlyEnhanced ==
    /\ BasePrefix(vulnerabilities)
    /\ (ret.op = "reload" /\ ret.value = TRUE /\ lastLoad = "loaded")
          => BaseThenModule(vulnerabilities)

\* The reloadEnhancedPatterns() calls that wait for their import.
ReloadsLoading ==
    {i \in 1..Len(tasks) : tasks[i].kind = "reload" /\ tasks[i].pc = "import"}

\* Some catalog entry is present more than once.
HasDuplicate(kb) ==
    \E i, j \in 1..Len(kb) : i < j /\ kb[i] = kb[j]

\* A catalog between the filter of a reload and the push of its load while
\* the flag still says enhanced, or one that holds an entry twice.
PartiallyRebuilt ==
    \/ /\ datasetPatternsLoaded
       /\ Cleared(vulnerabilities) = vulnerabilities
       /\ \E i \in 1..Len(tasks) : tasks[i].pc = "import"
    \/ HasDuplicate(vulnerabilities)

\* At most one reloadEnhancedPatterns() is loading at a time.
OneReloadAtATime == Cardinality(ReloadsLoading) <= 1

\* No analysis or getDatasetInfo call returns from a partially rebuilt catalog.
NoPartialObserved == ret.op \in {"info", "analyze"} => ~PartiallyRebuilt

\* C12: reloads exclude each other (a second call while one is loading does
\* not start loading), and no analysis or getDatasetInfo call interleaved
\* with a load or reload observes a partially rebuilt catalog.
C12_ReloadsExclusiveAndAtomic ==
    /\ OneReloadAtATime
    /\ NoPartialObserved

\* C13: in every reachable state no two catalog entries have the same id.
C13_IdsUnique ==
    \A i, j \in 1..Len(vulnerabilities) :
        i # j => vulnerabilities[i].id # vulnerabilities[j].id

\* ------------------------------------------------- analysis calls and prompt
\* The shared state the analysis calls read.
CatalogState == <<vulnerabilities, datasetStatistics, datasetPatternsLoaded>>

\* C14: a step in which analyzeContractWithConfidence, analyzeContract,
\* getContextualRecommendations or generateEnhancedPromptWithDataset returns
\* leaves catalog, flag and statistics as they were; and what the callers
\* hold, the value just returned and the prompt returned before the calls of
\* another caller, is what the same call returns when made on its own now.
C14_AnalysisCallsReadOnly ==
    /\ [][ret'.op \in AnalysisOps => UNCHANGED CatalogState]_vars
    /\ [](/\ ret.op \in AnalysisOps => ret = Call(ret.op, text)
          /\ prev.op = "analyze" => prev = Call("analyze", text)
          /\ prev.op = "prompt" => prev = Call("prompt", prev.contractCode))

\* A caller keeps the prompt for one text while another caller has analysed
\* another text, on an enhanced catalog.
C14_Witness ==
    /\ prev.op = "prompt"
    /\ ret.op = "analyze"
    /\ datasetPatternsLoaded
    /\ text # prev.contractCode
    /\ Len(prev.recommendations) > 0
    /\ ret.securityScore < 5

FirstWithRecommendation(kb, code) ==
    {i \in Firing(kb, code) :
        \A j \in Firing(kb, code) :
            j < i => RecommendationOf(kb[j]) # RecommendationOf(kb[i])}

\* list is the recommendations of the firing entries in catalog order, each
\* distinct text once, at the place of its first occurrence.
IsDistinctRecommendations(list, kb, code) ==
    LET first == FirstWithRecommendation(kb, code)
    IN  /\ Len(list) = Cardinality(first)
        /\ \A i \in first :
              list[1 + Cardinality({j \in first : j < i})] = RecommendationOf(kb[i])

\* C16: the recommendations rendered into the prompt are the recommendations
\* of all firing patterns in catalog order, every distinct one exactly once,
\* in the order of first occurrence.
C16_PromptListsEveryRecommendation ==
    ret.op = "prompt" =>
        IsDistinctRecommendations(ret.recommendations, vulnerabilities, ret.contractCode)

InSeq(x, seq) == \E k \in 1..Len(seq) : seq[k] = x

\* The analysis of a text and its recommendations, from two calls in a turn.
Recommended == ret.op = "recs" /\ prev.op = "analyze"

\* C17 as stated: a catalog pattern fires if and only if its description is
\* in the bucket of its severity, and if and only if its recommendation is
\* in the list of getContextualRecommendations.
C17_FiresIffListed ==
    Recommended =>
        \A i \in 1..Len(vulnerabilities) :
            LET vuln == vulnerabilities[i]
                fires == i \in Firing(vulnerabilities, text)
            IN  /\ fires <=> InSeq(DescriptionOf(vuln), prev.vulnerabilities[vuln.severity])
                /\ fires <=> InSeq(RecommendationOf(vuln), ret.list)

\* C17 amended: the description of a catalog pattern is in the bucket of its
\* severity if and only if a pattern of that severity with that description
\* fires, and its recommendation is in the list if and only if a pattern with
\* that recommendation fires; buckets and list hold nothing else; a text
\* with tx.origin has the tx.origin finding in the medium bucket and the
\* recommendation to use msg.sender.
C17_FiringListed ==
    Recommended =>
        LET kb == vulnerabilities
            firing == Firing(vulnerabilities, text)
        IN  /\ \A i \in 1..Len(kb) :
                  /\ InSeq(DescriptionOf(kb[i]), prev.vulnerabilities[kb[i].severity])
                       <=> \E j \in firing : /\ kb[j].severity = kb[i].severity
                                              /\ DescriptionOf(kb[j]) = DescriptionOf(kb[i])
                  /\ InSeq(RecommendationOf(kb[i]), ret.list)
                       <=> \E j \in firing : RecommendationOf(kb[j]) = RecommendationOf(kb[i])
            /\ \A sev \in Severities : \A k \in 1..Len(prev.vulnerabilities[sev]) :
                  \E j \in firing : /\ kb[j].severity = sev
                                     /\ DescriptionOf(kb[j]) = prev.vulnerabilities[sev][k]
            /\ \A k \in 1..Len(ret.list) :
                  \E j \in firing : RecommendationOf(kb[j]) = ret.list[k]
            /\ MatchCount(text, "tx_origin") > 0 =>
                  /\ InSeq("Using tx.origin for authorization is vulnerable to phishing attacks",
                           prev.vulnerabilities["medium"])
                  /\ InSeq("Use msg.sender instead of tx.origin for access control", ret.list)

\* A text with tx.origin on which a pattern that does not fire has its
\* recommendation listed, another pattern with the same text firing.
C17_Witness ==
    /\ Recommended
    /\ MatchCount(text, "tx_origin") > 0
    /\ \E i \in 1..Len(vulnerabilities) :
          /\ i \notin Firing(vulnerabilities, text)
          /\ InSeq(RecommendationOf(vulnerabilities[i]), ret.list)

\* ------------------------------------------------------------ gas patterns
\* The lines on which gas patterns fire; no vulnerability pattern fires on them.
GasSnippets == {"forlen", "storage", "string"}

\* The text just analysed is the text analysed before with gas lines appended.
GasAppended ==
    /\ Analysed
    /\ prev.op = "analyze"
    /\ text[Len(text)][1] \in GasSnippets

\* C18: each of the three gas patterns has its suggestion in gasOptimizations
\* once when it fires and not at all when it does not, whatever the number of
\* its matches, and nothing else is in the list; appending lines on which only
\* gas patterns fire leaves securityScore, confidence, datasetMatches and the
\* findings buckets as they were.
C18_GasPurelyAdditive ==
    /\ Analysed =>
          /\ \A g \in 1..Len(GAS_OPTIMIZATION_PATTERNS) :
                Occurrences(ret.gasOptimizations, GAS_OPTIMIZATION_PATTERNS[g].optimization)
                  = IF MatchCount(text, GAS_OPTIMIZATION_PATTERNS[g].pattern) > 0 THEN 1 ELSE 0
          /\ Len(ret.gasOptimizations)
                = Cardinality({g \in 1..Len(GAS_OPTIMIZATION_PATTERNS) :
                                 MatchCount(text, GAS_OPTIMIZATION_PATTERNS[g].pattern) > 0})
    /\ GasAppended =>
          /\ ret.securityScore = prev.securityScore
          /\ ret.confidence = prev.confidence
          /\ ret.datasetMatches = prev.datasetMatches
          /\ ret.vulnerabilities = prev.vulnerabilities

\* Fifty lines with a gas pattern appended to a text with findings: one more
\* suggestion, on an enhanced catalog with dataset matches.
C18_Witness ==
    /\ GasAppended
    /\ text[Len(text)][2] = BigRep
    /\ Len(ret.gasOptimizations) = Len(prev.gasOptimizations) + 1
    /\ ret.securityScore < 5
    /\ ret.datasetMatches > 0

\* ------------------------------------------- the call-before-effect heuristic
\* The lines that hold an external call (call, send or transfer), and the
\* lines that hold an assignment to balances[...].
CallLines == {"callvalue", "call", "send", "transfer", "resetcall"}
StateResetLines == {"reset", "resetto", "resetcall"}

\* getEnhancedPrompt has returned for the text, the patterns being loaded.
Detected == ret.op = "academic" /\ vulnerabilityPatterns = ACADEMIC_PATTERNS

FlagsReentrancy == \E k \in 1..Len(ret.detectedPatterns) : ret.detectedPatterns[k] = "reentrancy"

\* C19: a text in which some line with an external call comes strictly before
\* some line with an assignment to balances[...] is flagged for reentrancy,
\* whatever lines follow.
C19_CallBeforeResetFlagged ==
    (/\ Detected
     /\ \E i, j \in 1..Len(text) : /\ i < j
                                    /\ text[i] \in CallLines
                                    /\ text[j] \in StateResetLines)
        => FlagsReentrancy

\* C20: a text without a line that assigns to balances[...] is not flagged,
\* and neither is a text in which no external-call line comes before a line
\* that assigns to balances[...].
C20_NoResetNotFlagged ==
    Detected =>
        /\ (\A j \in 1..Len(text) : text[j] \notin StateResetLines) => ~FlagsReentrancy
        /\ (\A i, j \in 1..Len(text) :
                (text[i] \in CallLines /\ text[j] \in StateResetLines) => i >= j)
              => ~FlagsReentrancy

\* ------------------------------------ heuristic detectors and the result
\* The descriptions of the catalog's reentrancy patterns.
ReentrancyDescriptions ==
    { DescriptionOf(BasePattern("reentrancy", "critical")),
      DescriptionOf(EnhPattern("enhanced_reentrancy", "critical", 20)) }

\* C21: when the call-before-effect heuristic has fired on a string, the
\* result of analysing that string holds a reentrancy finding in its
\* critical bucket, and its score is at most the score of one critical finding.
C21_HeuristicFindingInResult ==
    (/\ ret.op = "analyze"
     /\ prev.op = "academic"
     /\ prev.status = "returned"
     /\ \E k \in 1..Len(prev.detectedPatterns) : prev.detectedPatterns[k] = "reentrancy")
        => /\ \E i \in 1..Len(ret.vulnerabilities["critical"]) :
                  ret.vulnerabilities["critical"][i] \in ReentrancyDescriptions
           /\ ret.securityScore <= SecurityScore(getSeverityWeight("critical"))

\* C22: every analysis call returns a value: getEnhancedPrompt returns for
\* every string in every state of the dataset processor, before loadDataset
\* has been called too, and the engine's analysis of the same string returns.
C22_AnalysisCallsReturn ==
    /\ ret.op = "academic" => ret.status = "returned"
    /\ ret.op = "analyze" => ret.securityScore \in 0..5

\* ----------------------------------------------------------- input size
\* The number of lines of a text.
RECURSIVE SizeInLines(_)
SizeInLines(contractCode) ==
    IF contractCode = << >> THEN 0
    ELSE Head(contractCode)[2] + SizeInLines(Tail(contractCode))

\* A cap on the input size, in lines, as a caller would set it.
InputSizeCap == BigRep

\* C23: a text larger than the size cap is not analysed: no result with a
\* score is returned for it.
C23_OversizedInputRejected ==
    ~(Analysed /\ SizeInLines(text) > InputSizeCap)

\* ------------------------------------------------- a pattern that does not compile
\* C24: after a load from a source in which one entry has an expression that
\* does not compile, the catalog holds every valid entry of that source and
\* not the bad one.
C24_BadPatternDropsOnlyItself ==
    (ret.op = "load" /\ ret.outcome = "badPattern")
        => \A i \in 1..Len(SourceEntries("badPattern")) :
              LET entry == SourceEntries("badPattern")[i]
              IN  InSeq(entry, vulnerabilities) <=> entry # BROKEN_PATTERN

\* ------------------------------------------------ the confidence division
\* C25: the confidence computation never divides by zero: when
\* datasetMatches > 0 the divisor datasetMatches + critical + high is at
\* least 1, and when datasetMatches = 0 nothing is divided.
C25_NoDivisionByZero ==
    Analysed =>
        /\ ret.datasetMatches > 0 => ret.dividedBy >= 1
        /\ ret.datasetMatches = 0 => ret.dividedBy = Undefined

\* A dataset pattern of severity medium fires alone with its base
\* counterpart: the divisor is datasetMatches itself.
C25_Witness ==
    /\ Analysed
    /\ ret.datasetMatches = 1
    /\ ret.vulnerabilities["critical"] = << >>
    /\ ret.vulnerabilities["high"] = << >>
    /\ ret.dividedBy = 1

\* ------------------------------------------- the score and the star table
\* C27: an analysis result with an entry in its critical bucket has a
\* securityScore of at most 2.
C27_CriticalMeansAtMostTwo ==
    (Analysed /\ ret.vulnerabilities["critical"] # << >>) => ret.securityScore <= 2

\* No pattern of the catalog has severity low.
NoLowPattern(kb) == \A i \in 1..Len(kb) : kb[i].severity # "low"

NoFinding == \A sev \in Severities : ret.vulnerabilities[sev] = << >>

\* C28: on a catalog without a pattern of severity low, securityScore is 5
\* exactly when no pattern fires, and a pattern fires exactly when some
\* bucket of findings is not empty.
C28_FiveIffNothingFires ==
    (Analysed /\ NoLowPattern(vulnerabilities))
        => /\ ret.securityScore = 5 <=> Firing(vulnerabilities, text) = {}
           /\ NoFinding <=> Firing(vulnerabilities, text) = {}

\* One pattern of severity medium fires once, the lightest finding there is.
C28_Witness ==
    /\ Analysed
    /\ NoLowPattern(vulnerabilities)
    /\ ret.totalIssues = 2
    /\ Len(ret.vulnerabilities["medium"]) = 1
    /\ ret.securityScore = 4

\* ------------------------------------------------ the original analyze method
\* C29: what analyzeContract returns for a text is the projection of what
\* analyzeContractWithConfidence returns for it in the same catalog state:
\* the same vulnerabilities, gasOptimizations, securityScore and detailedAnalysis.
C29_AnalyzeContractIsProjection ==
    ret.op = "basic" =>
        LET enhanced == analyzeContractWithConfidence(vulnerabilities,
                                                      datasetPatternsLoaded, text)
        IN  /\ ret.vulnerabilities = enhanced.vulnerabilities
            /\ ret.gasOptimizations = enhanced.gasOptimizations
            /\ ret.securityScore = enhanced.securityScore
            /\ ret.detailedAnalysis = enhanced.detailedAnalysis

\* analyzeContract on a loaded catalog, an enhanced pattern firing.
C29_Witness ==
    /\ ret.op = "basic"
    /\ datasetPatternsLoaded
    /\ \E i \in Firing(vulnerabilities, text) : IsDatasetPattern(vulnerabilities[i])
    /\ ret.securityScore < 5

FailureStep == page.run = "llm" /\ page'.run = "idle"
SuccessStep == page.run = "llm" /\ page'.run = "network"

\* C30: every run of analyzeContract that passed validation ends, isAnalyzing
\* returns to false however the LLM call goes; a failing run sets the error,
\* leaves the result as it was and starts no cooldown; a successful run sets
\* the cooldown to 30, which then goes down by one per tick to 0 and is never
\* negative.
C30_RunEndsAndCooldownCountsDown ==
    /\ page.isAnalyzing ~> ~page.isAnalyzing
    /\ [][FailureStep => /\ page'.error = AnalysisFailed
                         /\ page'.result = page.result
                         /\ page'.cooldown = 0
                         /\ page.cooldown = 0]_vars
    /\ [][SuccessStep => page'.cooldown = COOLDOWN_TIME]_vars
    /\ [][page'.cooldown # page.cooldown
            => SuccessStep \/ page'.cooldown = page.cooldown - 1]_vars
    /\ [](page.cooldown >= 0 /\ page.cooldown <= COOLDOWN_TIME)
    /\ (page.cooldown = COOLDOWN_TIME) ~> (page.cooldown = 0)

\* A run has failed after an earlier one succeeded: the error is set, the
\* earlier result still there, its cooldown run down.
C30_Witness ==
    /\ page.error = AnalysisFailed
    /\ page.result # Null
    /\ ~page.isAnalyzing
    /\ page.cooldown = 0
    /\ ret.op = "llm"

====
